---------------------------- MODULE Spec2Model ----------------------------
(***************************************************************************)
(* A model of melgui: the declaration parser (Gui.from_string and          *)
(* Control.from_string), the Gui container (add, create, extend), the      *)
(* thunking of command flags in Control.edit and CallbackNotifier.         *)
(*                                                                         *)
(* Text is modelled character by character: a Python str is a sequence of  *)
(* one-character strings.  Python's None is the value None below.          *)
(***************************************************************************)
EXTENDS Integers, Sequences, FiniteSets, TLC

VARIABLES
    s,                   \* Gui.from_string: the declaration text
    pc,                  \* Gui.from_string: position ("start", "loop", "done", "error", "off")
    declaration_triples, \* Gui.from_string: what parse_line returned
    line_no,             \* Gui.from_string: index of the next triple of the for loop
    control_stack,       \* ControlStack._controls
    controls,            \* Gui.from_string: the list of parsed Controls
    error,               \* the exception that left Gui.from_string ("" when none)
    objects,             \* the Control objects that exist, by identity 1..Len(objects)
    guis,                \* the Gui objects: _controls and _control_lookup of each
    call,                \* the Gui method last called: its arguments and its position
    call_pre,            \* the _controls of self and other when that call began
    mel_log,             \* the mel.eval invocations of that call: the Control, accepted or not
    host_ui,             \* the Controls the host has created
    raised,              \* the exception that left that call ("" when none)
    stdout,              \* the lines that call printed
    user_flags,          \* Control.edit: the flags the caller passed
    flags,               \* Control.edit: the dict flags, as thunk_commands changes it
    visit_order,         \* thunk_commands: the order in which iteritems yields the flags
    visited,             \* thunk_commands: the number of flags the for loop has handled
    value,               \* thunk_commands: its variable value, which every lambda reads
    edit_pc,             \* Control.edit: position ("idle", "thunking", "called", "off")
    invocations,         \* what each invocation of a handed wrapper by the host did
    callbacks,           \* CallbackNotifier.__callbacks: event name -> list of callbacks
    notifying,           \* _notify: its event, its position in the list, what it invoked
    notifier_raised,     \* the exception that left the last CallbackNotifier call
    notifier_call        \* that call: the method, its arguments, __callbacks before it

parser_vars == <<s, pc, declaration_triples, line_no, control_stack, controls, error>>

gui_vars == <<objects, guis, call, call_pre, mel_log, host_ui, raised, stdout>>

edit_vars == <<user_flags, flags, visit_order, visited, value, edit_pc, invocations>>

notifier_vars == <<callbacks, notifying, notifier_raised, notifier_call>>

vars == <<parser_vars, gui_vars, edit_vars, notifier_vars>>

-----------------------------------------------------------------------------
(* Bounds of the model *)

MaxLines == 4
MaxFlags == 2
MaxControls == 3
MaxInitControls == 1
MaxInvocations == 2
MaxCallbackArgs == 2

-----------------------------------------------------------------------------
(* Python values and str methods *)

None == <<"None">>

Whitespace == {" ", "\t"}

NameChars ==
    {"a","b","c","d","e","f","g","h","i","j","k","l","m","n","o","p","q","r",
     "s","t","u","v","w","x","y","z",
     "A","B","C","D","E","F","G","H","I","J","K","L","M","N","O","P","Q","R",
     "S","T","U","V","W","X","Y","Z",
     "0","1","2","3","4","5","6","7","8","9","_"}


\* every sequence over S of length 0..n
SeqsUpTo(S, n) == UNION {[1..k -> S] : k \in 0..n}

\* the characters of line at positions a..b (1-based), those that exist
Mid(line, a, b) ==
    LET lo == IF a < 1 THEN 1 ELSE a
        hi == IF b > Len(line) THEN Len(line) ELSE b
    IN  IF hi < lo THEN <<>> ELSE [i \in 1..(hi - lo + 1) |-> line[lo + i - 1]]

\* the characters of line after its first m characters
Drop(line, m) == Mid(line, m + 1, Len(line))

\* str.find(ch): the 0-based index of the first ch, -1 when there is none
find(line, ch) ==
    IF \E i \in 1..Len(line) : line[i] = ch
    THEN (CHOOSE i \in 1..Len(line) :
              line[i] = ch /\ \A j \in 1..(i-1) : line[j] # ch) - 1
    ELSE -1

\* a slice bound as Python normalises it: negative counts from the end
SliceIndex(i, n) ==
    IF i < 0 THEN (IF i + n < 0 THEN 0 ELSE i + n)
    ELSE (IF i > n THEN n ELSE i)

\* line[lo:hi]
Slice(line, lo, hi) ==
    Mid(line, SliceIndex(lo, Len(line)) + 1, SliceIndex(hi, Len(line)))

\* line[lo:]
SliceFrom(line, lo) == Slice(line, lo, Len(line))

\* the number of leading characters of line that are in chars
LeadingRun(line, chars) ==
    CHOOSE m \in 0..Len(line) :
        /\ \A i \in 1..m : line[i] \in chars
        /\ (m = Len(line) \/ line[m+1] \notin chars)

TrailingRun(line, chars) ==
    CHOOSE m \in 0..Len(line) :
        /\ \A i \in (Len(line)-m+1)..Len(line) : line[i] \in chars
        /\ (m = Len(line) \/ line[Len(line)-m] \notin chars)

\* str.rstrip()
rstrip(line) == Mid(line, 1, Len(line) - TrailingRun(line, Whitespace))

\* str.strip()
strip(line) == rstrip(Drop(line, LeadingRun(line, Whitespace)))

\* str.lstrip()
lstrip(line) == Drop(line, LeadingRun(line, Whitespace))

\* the number of leading characters of line that are not whitespace
TokenRun(line) ==
    CHOOSE m \in 0..Len(line) :
        /\ \A i \in 1..m : line[i] \notin Whitespace
        /\ (m = Len(line) \/ line[m+1] \in Whitespace)

\* str.split(): the whitespace-delimited tokens
RECURSIVE split(_)
RECURSIVE SplitToken(_, _)
\* rest starts with a token of m characters
SplitToken(rest, m) == <<Mid(rest, 1, m)>> \o split(Drop(rest, m))

RECURSIVE SplitRest(_)
SplitRest(rest) ==
    IF rest = <<>> THEN <<>>
    ELSE SplitToken(rest, TokenRun(rest))

split(line) == SplitRest(lstrip(line))

\* ' '.join(tokens)
RECURSIVE join(_)
join(tokens) ==
    IF tokens = <<>> THEN <<>>
    ELSE IF Len(tokens) = 1 THEN tokens[1]
    ELSE tokens[1] \o <<" ">> \o join(Tail(tokens))

\* str.replace(old, new): every non-overlapping occurrence, left to right
RECURSIVE replace(_, _, _)
replace(line, old, new) ==
    IF Len(line) < Len(old) \/ old = <<>> THEN line
    ELSE IF Mid(line, 1, Len(old)) = old
         THEN new \o replace(Mid(line, Len(old) + 1, Len(line)), old, new)
         ELSE <<line[1]>> \o replace(Tail(line), old, new)

\* str.splitlines(): the lines without their line breaks
RECURSIVE splitlines(_)
RECURSIVE SplitLinesAt(_, _)
\* i is text.find('\n')
SplitLinesAt(text, i) ==
    IF i = -1 THEN <<text>>
    ELSE <<Slice(text, 0, i)>> \o splitlines(SliceFrom(text, i + 1))

splitlines(text) ==
    IF text = <<>> THEN <<>> ELSE SplitLinesAt(text, find(text, "\n"))

-----------------------------------------------------------------------------
(* Gui.from_string: the helpers nested in it *)

\* the local state of strip_comments: quote_open and quote_chars
ScanStart == [quote_open |-> FALSE, quote_chars |-> {"\"", "'"}]

\* open_quote assigns quote_open and quote_chars, which binds names local to
\* open_quote itself: the variables of strip_comments keep their values
open_quote(scan, quote_char) == scan

\* close_quote: as open_quote, its assignments are to its own locals
close_quote(scan) == scan

RECURSIVE strip_comments_from(_, _, _)
strip_comments_from(line, i, scan) ==
    IF i > Len(line) THEN line
    ELSE IF line[i] = "#" /\ ~scan.quote_open THEN Slice(line, 0, i - 1)
    ELSE IF line[i] \in scan.quote_chars
         THEN strip_comments_from(line, i + 1,
                  IF scan.quote_open THEN close_quote(scan)
                  ELSE open_quote(scan, line[i]))
         ELSE strip_comments_from(line, i + 1, scan)

strip_comments(line) == strip_comments_from(line, 1, ScanStart)

\* re.match(r'[ \t]*', line), tabs replaced by four spaces, len
\* len(match.replace('\t', '    ')) for a match of m characters
IndentationOf(line, m) == m + 3 * Cardinality({i \in 1..m : line[i] = "\t"})

get_indentation_level(line) == IndentationOf(line, LeadingRun(line, {" ", "\t"}))

\* the pair split_control returns, first_colon_index being line.find(':')
SplitAt(line, first_colon_index) ==
    <<strip(Slice(line, 0, first_colon_index)),
      strip(SliceFrom(line, first_colon_index + 1))>>

split_control(line) == SplitAt(line, find(line, ":"))

\* the triple parse_line appends for a line
DeclarationTriple(indentation_level, name_command) ==
    <<indentation_level, name_command[1], name_command[2]>>

parse_line(lines) ==
    [i \in 1..Len(lines) |->
        DeclarationTriple(get_indentation_level(lines[i]),
                          split_control(lines[i]))]

StripEach(ls) == [i \in 1..Len(ls) |-> strip_comments(ls[i])]

commentless_lines(text) == StripEach(splitlines(text))

\* (a variant that keeps every line that is not empty)
IsMeaningful_nonempty(line) == line # <<>>

IsMeaningful(line) == strip(line) # <<>>

meaningful_lines(text) == SelectSeq(commentless_lines(text), IsMeaningful)

-----------------------------------------------------------------------------
(* ControlStack *)

ControlStackInit == << <<-1, None>> >>

\* (a variant of pop that keeps an entry of the same depth on the stack)
RECURSIVE ControlStack_pop_deeper_only(_, _)
ControlStack_pop_deeper_only(stack, indentation_level) ==
    IF stack[Len(stack)][1] > indentation_level
    THEN ControlStack_pop_deeper_only(SubSeq(stack, 1, Len(stack) - 1),
                                      indentation_level)
    ELSE stack

\* (a variant of pop that takes at most one entry off the stack)
ControlStack_pop_once(stack, indentation_level) ==
    IF stack[Len(stack)][1] >= indentation_level
    THEN SubSeq(stack, 1, Len(stack) - 1)
    ELSE stack

\* pop: the sentinel's depth is -1 and no indentation level is below 0, so
\* the loop stops at the sentinel at the latest
RECURSIVE ControlStack_pop(_, _)
ControlStack_pop(stack, indentation_level) ==
    IF stack[Len(stack)][1] >= indentation_level
    THEN ControlStack_pop(SubSeq(stack, 1, Len(stack) - 1), indentation_level)
    ELSE stack

ControlStack_push_ok(stack, indentation_level) ==
    indentation_level > stack[Len(stack)][1]

ControlStack_push(stack, indentation_level, control_name) ==
    Append(stack, <<indentation_level, control_name>>)

top_control(stack) == stack[Len(stack)][2]

-----------------------------------------------------------------------------
(* Control.from_string *)

Control(name, control_type, creation_flags, parent_name) ==
    [name |-> name, control_type |-> control_type,
     creation_flags |-> creation_flags, parent_name |-> parent_name]

CharAt(command, j) == IF j >= 1 /\ j <= Len(command) THEN command[j] ELSE ""

\* the regex r' -p(?:arent)? "?([A-Za-z0-9_]+)"? ?' tried at position i.  Every
\* quantifier is greedy, and none can give characters back with success, so
\* the match is found left to right: j2 follows "-p" or "-parent", j4 the
\* space and the opening quote, the name has m characters
ParentRegexEnd(command, i, j2, j4, m) ==
    LET j6 == IF CharAt(command, j4 + m) = "\"" THEN j4 + m + 1 ELSE j4 + m
    IN  [matched |-> /\ Mid(command, i, i + 2) = <<" ", "-", "p">>
                     /\ CharAt(command, j2) = " "
                     /\ m >= 1,
         group0  |-> Mid(command, i,
                         IF CharAt(command, j6) = " " THEN j6 ELSE j6 - 1),
         group1  |-> Mid(command, j4, j4 + m - 1)]

ParentRegexName(command, i, j2, j4) ==
    ParentRegexEnd(command, i, j2, j4, LeadingRun(Drop(command, j4 - 1), NameChars))

ParentRegexValue(command, i, j2) ==
    ParentRegexName(command, i, j2,
                    IF CharAt(command, j2 + 1) = "\"" THEN j2 + 2 ELSE j2 + 1)

ParentRegexAt(command, i) ==
    ParentRegexValue(command, i,
                     IF Mid(command, i + 3, i + 7) = <<"a","r","e","n","t">>
                     THEN i + 8 ELSE i + 3)

NoMatch == [matched |-> FALSE, group0 |-> <<>>, group1 |-> <<>>]

Minimum(S) == CHOOSE i \in S : \A j \in S : i <= j

LeftmostMatch(command, starts) ==
    IF starts = {} THEN NoMatch ELSE ParentRegexAt(command, Minimum(starts))

\* re.search: the leftmost match, or matched = FALSE
parent_name_regex(command) ==
    LeftmostMatch(command,
                  {i \in 1..Len(command) : ParentRegexAt(command, i).matched})

\* lines 108-113: the command is split and the Control made; command_tokens[0]
\* is an IndexError when the command has no token
ControlFromTokens(name, command_tokens, parent_name) ==
    IF command_tokens = <<>>
    THEN [raised |-> "IndexError", control |-> Control(name, <<>>, <<>>, parent_name)]
    ELSE [raised |-> "",
          control |-> Control(name, command_tokens[1],
                              join(Tail(command_tokens)), parent_name)]

\* (a variant that takes the flag out of the command and keeps the parent
\* the caller passed)
ControlFromMatch_inferred_parent(name, command, parent_name, re) ==
    IF re.matched
    THEN ControlFromTokens(name, split(replace(command, re.group0, <<" ">>)),
                           parent_name)
    ELSE ControlFromTokens(name, split(command), parent_name)

\* lines 102-104: an explicit parent is taken out of the command
ControlFromMatch(name, command, parent_name, re) ==
    IF re.matched
    THEN ControlFromTokens(name, split(replace(command, re.group0, <<" ">>)),
                           re.group1)
    ELSE ControlFromTokens(name, split(command), parent_name)

\* Control.from_string(name, command, parent_name): the Control, or what it raises
Control_from_string(name, command, parent_name) ==
    ControlFromMatch(name, command, parent_name, parent_name_regex(command))

-----------------------------------------------------------------------------
(* Gui.from_string as a process: the text is split and stripped, then the  *)
(* for loop handles one declaration triple per step.                       *)

\* lines 293-300: the lines are stripped and parsed, the stack is created
FromStringStart ==
    /\ pc = "start"
    /\ declaration_triples' = parse_line(meaningful_lines(s))
    /\ controls' = <<>>
    /\ control_stack' = ControlStackInit
    /\ line_no' = 1
    /\ pc' = "loop"
    /\ UNCHANGED <<s, error>>
    /\ UNCHANGED <<gui_vars, edit_vars, notifier_vars>>

\* (a variant that does not push a Control whose parent was given explicitly)
AppendAndPush_inferred_only(triple, popped, made) ==
    IF made.raised # ""
    THEN /\ error' = made.raised
         /\ pc' = "error"
         /\ control_stack' = popped
         /\ UNCHANGED <<controls, line_no>>
    ELSE /\ controls' = Append(controls, made.control)
         /\ control_stack' =
                IF made.control.parent_name = top_control(popped)
                THEN ControlStack_push(popped, triple[1], triple[2])
                ELSE popped
         /\ line_no' = line_no + 1
         /\ UNCHANGED <<pc, error>>

\* lines 312-318: the Control is appended and pushed on the stack; what
\* Control.from_string raises, or the assertion of push, ends the parse
AppendAndPush(triple, popped, made) ==
    IF made.raised # ""
    THEN /\ error' = made.raised
         /\ pc' = "error"
         /\ control_stack' = popped
         /\ UNCHANGED <<controls, line_no>>
    ELSE IF ~ControlStack_push_ok(popped, triple[1])
    THEN /\ error' = "AssertionError"
         /\ pc' = "error"
         /\ control_stack' = popped
         /\ controls' = Append(controls, made.control)
         /\ UNCHANGED line_no
    ELSE /\ controls' = Append(controls, made.control)
         /\ control_stack' = ControlStack_push(popped, triple[1], triple[2])
         /\ line_no' = line_no + 1
         /\ UNCHANGED <<pc, error>>

\* lines 308-314: the stack is popped and its top is the inferred parent
PopAndParse(triple, popped) ==
    AppendAndPush(triple, popped,
                  Control_from_string(triple[2], triple[3], top_control(popped)))

\* lines 302-318: one iteration of the for loop
FromStringLine ==
    /\ pc = "loop"
    /\ line_no <= Len(declaration_triples)
    /\ PopAndParse(declaration_triples[line_no],
                   ControlStack_pop(control_stack, declaration_triples[line_no][1]))
    /\ UNCHANGED <<s, declaration_triples>>
    /\ UNCHANGED <<gui_vars, edit_vars, notifier_vars>>

\* line 321: the loop is over and the Gui is built from the controls
FromStringReturn ==
    /\ pc = "loop"
    /\ line_no > Len(declaration_triples)
    /\ pc' = "done"
    /\ UNCHANGED <<s, declaration_triples, line_no, control_stack, controls, error>>
    /\ UNCHANGED <<gui_vars, edit_vars, notifier_vars>>

ParserNext == FromStringStart \/ FromStringLine \/ FromStringReturn

-----------------------------------------------------------------------------
(* Gui: add, create, extend.  A Control is named by its identity, its index  *)
(* in objects; a Gui is the record of its _controls and _control_lookup.     *)

GuiIds == {"g", "h"}

Range(seq) == {seq[i] : i \in 1..Len(seq)}

\* lines 128-129: the empty Gui
EmptyGui == [controls |-> <<>>, control_lookup |-> <<>>]

\* lines 134-139: gui[key], a KeyError when the index has no such name
Gui_getitem(gui, key) ==
    IF key \in DOMAIN gui.control_lookup
    THEN [raised |-> "", control |-> gui.control_lookup[key]]
    ELSE [raised |-> "KeyError", control |-> 0]

\* (a variant of add that appends the control and leaves the index as it is)
Gui_add_unindexed(gui, control, name) ==
    [controls |-> Append(gui.controls, control),
     control_lookup |-> gui.control_lookup]

\* Gui.add(control), name being control.name
Gui_add(gui, control, name) ==
    [controls |-> Append(gui.controls, control),
     control_lookup |->
         [n \in (DOMAIN gui.control_lookup) \cup {name} |->
             IF n = name THEN control ELSE gui.control_lookup[n]]]

\* Gui.__init__(controls): each control is added in turn
RECURSIVE Gui_init(_, _)
Gui_init(cs, objs) ==
    IF cs = <<>> THEN EmptyGui
    ELSE Gui_add(Gui_init(SubSeq(cs, 1, Len(cs) - 1), objs),
                 cs[Len(cs)], objs[cs[Len(cs)]].name)

NoCall == [op |-> "none", self |-> "g", other |-> "g", control |-> 0,
           phase |-> "returned", i |-> 0]

NoSnapshot == [self |-> <<>>, other |-> <<>>]

InCall == call.phase \in {"adding", "creating"}

\* gui.add(control) called from outside
GuiAdd(g, c) ==
    /\ ~InCall
    /\ Len(guis[g].controls) < MaxControls
    /\ guis' = [guis EXCEPT ![g] = Gui_add(@, c, objects[c].name)]
    /\ call' = [op |-> "add", self |-> g, other |-> g, control |-> c,
                phase |-> "returned", i |-> 0]
    /\ call_pre' = [self |-> guis[g].controls, other |-> <<>>]
    /\ mel_log' = <<>>
    /\ raised' = ""
    /\ stdout' = <<>>
    /\ UNCHANGED <<objects, host_ui>>
    /\ UNCHANGED <<parser_vars, edit_vars, notifier_vars>>

\* gui.create() is called: the for loop of line 152 is before its first control
GuiCreate(g) ==
    /\ ~InCall
    /\ call' = [op |-> "create", self |-> g, other |-> g, control |-> 0,
                phase |-> "creating", i |-> 0]
    /\ call_pre' = [self |-> guis[g].controls, other |-> guis[g].controls]
    /\ mel_log' = <<>>
    /\ raised' = ""
    /\ stdout' = <<>>
    /\ UNCHANGED <<objects, guis, host_ui>>
    /\ UNCHANGED <<parser_vars, edit_vars, notifier_vars>>

\* the Gui whose create() is running: self, or other inside extend
Creating == IF call.op = "extend" THEN call.other ELSE call.self

\* line 42: the parent flag, empty when parent_name is None or ''
parent_flag(control) ==
    IF control.parent_name \in {None, <<>>} THEN <<>>
    ELSE <<" ","-","p"," ">> \o control.parent_name

\* (a variant of the command without the parent flag)
create_command_no_parent(control) ==
    control.control_type \o <<" ">> \o control.creation_flags
        \o <<" ">> \o control.name \o <<";">>

\* lines 43-47: '%s%s %s %s;' of control_type, parent_flag, creation_flags, name
create_command(control) ==
    control.control_type \o parent_flag(control) \o <<" ">>
        \o control.creation_flags \o <<" ">> \o control.name \o <<";">>

\* line 54: the line printed for a command, '// %s //'
printed_command(command) == <<"/","/"," ">> \o command \o <<" ","/","/">>

\* the Control whose create() the loop of line 152 calls next
NextCreated == objects[guis[Creating].controls[call.i + 1]]

\* (a variant in which the failure of a control is dropped and the loop goes on)
CreateRaises_swallowed ==
    /\ call' = [call EXCEPT !.i = @ + 1]
    /\ UNCHANGED <<raised, host_ui, stdout>>

\* lines 53-55 and 152-153: the RuntimeError of mel.eval is raised again by
\* Control.create, and nothing in Gui.create or Gui.extend catches it
CreateRaises ==
    /\ stdout' = Append(stdout, printed_command(create_command(NextCreated)))
    /\ call' = [call EXCEPT !.phase = "raised"]
    /\ raised' = "RuntimeError"
    /\ UNCHANGED host_ui

\* line 52: the host has created the control, the loop goes on
CreateReturns(c) ==
    /\ call' = [call EXCEPT !.i = @ + 1]
    /\ host_ui' = host_ui \cup {c}
    /\ UNCHANGED <<raised, stdout>>

\* lines 152-153 and 35-55: Control.create of the next control; the host
\* accepts the command or rejects it
CreateControl ==
    /\ call.phase = "creating"
    /\ call.i < Len(guis[Creating].controls)
    /\ \E accepted \in BOOLEAN :
          /\ mel_log' = Append(mel_log,
                 [control |-> guis[Creating].controls[call.i + 1],
                  command |-> create_command(NextCreated),
                  accepted |-> accepted])
          /\ IF accepted
             THEN CreateReturns(guis[Creating].controls[call.i + 1])
             ELSE CreateRaises
    /\ UNCHANGED <<objects, guis, call_pre>>
    /\ UNCHANGED <<parser_vars, edit_vars, notifier_vars>>

\* line 152: the list is exhausted, create() returns (and with it extend())
CreateDone ==
    /\ call.phase = "creating"
    /\ call.i >= Len(guis[Creating].controls)
    /\ call' = [call EXCEPT !.phase = "returned"]
    /\ UNCHANGED <<objects, guis, call_pre, mel_log, host_ui, raised, stdout>>
    /\ UNCHANGED <<parser_vars, edit_vars, notifier_vars>>

\* gui.extend(other) is called: the for loop of line 160 is before the first
\* control of other.  (When other is not self the call is made only if its
\* controls fit the model's bound on a Gui.)
GuiExtend(g, o) ==
    /\ ~InCall
    /\ g # o => Len(guis[g].controls) + Len(guis[o].controls) <= MaxControls
    /\ call' = [op |-> "extend", self |-> g, other |-> o, control |-> 0,
                phase |-> "adding", i |-> 0]
    /\ call_pre' = [self |-> guis[g].controls, other |-> guis[o].controls]
    /\ mel_log' = <<>>
    /\ raised' = ""
    /\ stdout' = <<>>
    /\ UNCHANGED <<objects, guis, host_ui>>
    /\ UNCHANGED <<parser_vars, edit_vars, notifier_vars>>

\* lines 160-161: the next control of other._controls is added to self.  (The
\* list iterated is the live list: with other = self it grows at every step;
\* the model stops at MaxControls.)
ExtendAdd ==
    /\ call.phase = "adding"
    /\ call.i < Len(guis[call.other].controls)
    /\ Len(guis[call.self].controls) < MaxControls
    /\ guis' = [guis EXCEPT ![call.self] =
                   Gui_add(@, guis[call.other].controls[call.i + 1],
                           objects[guis[call.other].controls[call.i + 1]].name)]
    /\ call' = [call EXCEPT !.i = @ + 1]
    /\ UNCHANGED <<objects, call_pre, mel_log, host_ui, raised, stdout>>
    /\ UNCHANGED <<parser_vars, edit_vars, notifier_vars>>

\* line 162: the list is exhausted, other.create() is called
ExtendCreate ==
    /\ call.phase = "adding"
    /\ call.i >= Len(guis[call.other].controls)
    /\ call' = [call EXCEPT !.phase = "creating", !.i = 0]
    /\ UNCHANGED <<objects, guis, call_pre, mel_log, host_ui, raised, stdout>>
    /\ UNCHANGED <<parser_vars, edit_vars, notifier_vars>>

GuiNext ==
    \/ \E g \in GuiIds, c \in 1..Len(objects) : GuiAdd(g, c)
    \/ \E g \in GuiIds : GuiCreate(g)
    \/ CreateControl
    \/ CreateDone
    \/ \E g \in GuiIds, o \in GuiIds : GuiExtend(g, o)
    \/ ExtendAdd
    \/ ExtendCreate

\* three Controls, the first and the third of the same name
Universe ==
    <<Control(<<"a">>, <<"t">>, <<>>, None),
      Control(<<"b">>, <<"t">>, <<"-","l"," ","x">>, <<"a">>),
      Control(<<"a">>, <<"u">>, <<>>, None)>>

GuiOff ==
    /\ objects = <<>>
    /\ guis = [g \in GuiIds |-> EmptyGui]
    /\ call = NoCall
    /\ call_pre = NoSnapshot
    /\ mel_log = <<>>
    /\ host_ui = {}
    /\ raised = ""
    /\ stdout = <<>>

ParserOff ==
    /\ s = <<>>
    /\ pc = "off"
    /\ declaration_triples = <<>>
    /\ line_no = 1
    /\ control_stack = <<>>
    /\ controls = <<>>
    /\ error = ""

-----------------------------------------------------------------------------
(* Control.edit and thunk_commands.  A flag's value is a record: a function *)
(* of the caller, a value that cannot be called, or a lambda made by         *)
(* thunk_commands.                                                           *)

Callable(id) == [kind |-> "function", id |-> id]
Plain(id)    == [kind |-> "plain", id |-> id]
Lambda(flag) == [kind |-> "lambda", id |-> flag]

\* hasattr(value, '__call__')
has_call(v) == v.kind \in {"function", "lambda"}

Lower(c) ==
    CASE c = "A" -> "a" [] c = "B" -> "b" [] c = "C" -> "c" [] c = "D" -> "d"
      [] c = "E" -> "e" [] c = "F" -> "f" [] c = "G" -> "g" [] c = "H" -> "h"
      [] c = "I" -> "i" [] c = "J" -> "j" [] c = "K" -> "k" [] c = "L" -> "l"
      [] c = "M" -> "m" [] c = "N" -> "n" [] c = "O" -> "o" [] c = "P" -> "p"
      [] c = "Q" -> "q" [] c = "R" -> "r" [] c = "S" -> "s" [] c = "T" -> "t"
      [] c = "U" -> "u" [] c = "V" -> "v" [] c = "W" -> "w" [] c = "X" -> "x"
      [] c = "Y" -> "y" [] c = "Z" -> "z" [] OTHER -> c

\* str.lower()
lower(text) == [i \in 1..Len(text) |-> Lower(text[i])]

\* sub in text
Contains(text, sub) ==
    \E i \in 0..(Len(text) - Len(sub)) : Mid(text, i + 1, i + Len(sub)) = sub

\* line 69: the flag is a command flag and its value can be called
IsCommandFlag(flag, v) ==
    Contains(lower(flag), <<"c","o","m","m","a","n","d">>) /\ has_call(v)

F_command       == <<"c","o","m","m","a","n","d">>
F_changeCommand == <<"c","h","a","n","g","e","C","o","m","m","a","n","d">>
F_label         == <<"l","a","b","e","l">>
F_edit          == <<"e","d","i","t">>

UserFlagNames == {F_command, F_changeCommand, F_label}

UserValues == {Callable("f1"), Callable("f2"), Plain("text")}

\* the mappings a caller passes to edit: any flags of UserFlagNames
UserFlagMappings ==
    UNION {[names -> UserValues] : names \in SUBSET UserFlagNames}

VisitOrders(S) ==
    {order \in [1..Cardinality(S) -> S] :
        \A i, j \in 1..Cardinality(S) : i # j => order[i] # order[j]}

\* control.edit(**mapping) is called: line 73 sets flags['edit'], and
\* thunk_commands is before the first flag of flags.iteritems(), which yields
\* the flags in an order of the dict's own
ControlEdit(mapping) ==
    /\ edit_pc = "idle"
    /\ user_flags' = mapping
    /\ flags' = [f \in (DOMAIN mapping) \cup {F_edit} |->
                    IF f = F_edit THEN Plain("True") ELSE mapping[f]]
    /\ visit_order' \in VisitOrders((DOMAIN mapping) \cup {F_edit})
    /\ visited' = 0
    /\ value' = Plain("unbound")
    /\ edit_pc' = "thunking"
    /\ invocations' = <<>>
    /\ UNCHANGED <<parser_vars, gui_vars, notifier_vars>>

\* lines 69-70: a command flag's value is replaced by lambda _: value()
Thunked(dict, flag, v) ==
    IF IsCommandFlag(flag, v) THEN [dict EXCEPT ![flag] = Lambda(flag)] ELSE dict

\* lines 68-70: one iteration of the for loop; flag, value are bound to the item
ThunkFlag ==
    /\ edit_pc = "thunking"
    /\ visited < Len(visit_order)
    /\ value' = flags[visit_order[visited + 1]]
    /\ flags' = Thunked(flags, visit_order[visited + 1],
                        flags[visit_order[visited + 1]])
    /\ visited' = visited + 1
    /\ UNCHANGED <<user_flags, visit_order, edit_pc, invocations>>
    /\ UNCHANGED <<parser_vars, gui_vars, notifier_vars>>

\* lines 71, 74 and 88-89: the loop is over, the flags are handed to the host
CallCommand ==
    /\ edit_pc = "thunking"
    /\ visited >= Len(visit_order)
    /\ edit_pc' = "called"
    /\ UNCHANGED <<user_flags, flags, visit_order, visited, value, invocations>>
    /\ UNCHANGED <<parser_vars, gui_vars, notifier_vars>>

\* what lambda _: value() does when called: value is read when the lambda runs,
\* and calling a value that cannot be called is a TypeError
LambdaCall(flag, v) ==
    IF has_call(v)
    THEN [flag |-> flag, called |-> v.id, error |-> ""]
    ELSE [flag |-> flag, called |-> "", error |-> "TypeError"]

\* the host invokes, with its one argument, the wrapper it was handed for flag
HostInvokes(flag) ==
    /\ edit_pc = "called"
    /\ flags[flag].kind = "lambda"
    /\ Len(invocations) < MaxInvocations
    /\ invocations' = Append(invocations, LambdaCall(flag, value))
    /\ UNCHANGED <<user_flags, flags, visit_order, visited, value, edit_pc>>
    /\ UNCHANGED <<parser_vars, gui_vars, notifier_vars>>

EditNext ==
    \/ \E mapping \in UserFlagMappings : ControlEdit(mapping)
    \/ ThunkFlag
    \/ CallCommand
    \/ \E flag \in DOMAIN flags : HostInvokes(flag)

EditOff ==
    /\ user_flags = <<>>
    /\ flags = <<>>
    /\ visit_order = <<>>
    /\ visited = 0
    /\ value = Plain("unbound")
    /\ edit_pc = "off"
    /\ invocations = <<>>

-----------------------------------------------------------------------------
(* CallbackNotifier *)

SupportedEvents == {"changed", "closed"}

EventNames == SupportedEvents \cup {"other"}

CallbackIds == {"c1", "c2", "c3"}

\* (a variant that lets every event name pass)
check_support_any(event_name) == ""

\* lines 68-71: __check_support raises for an event that is not supported
check_support(event_name) ==
    IF event_name \in SupportedEvents THEN "" ELSE "TypeError"

\* lines 28-29: the event gets its list
WithList(cbs, event_name) ==
    IF event_name \in DOMAIN cbs THEN cbs
    ELSE [e \in (DOMAIN cbs) \cup {event_name} |->
             IF e = event_name THEN <<>> ELSE cbs[e]]

\* (a variant that appends every callback given)
AppendNew_all(list, new) == list \o new

\* lines 31-33: the callbacks not yet in the list are appended in turn
RECURSIVE AppendNew(_, _)
AppendNew(list, new) ==
    IF new = <<>> THEN list
    ELSE AppendNew(IF Head(new) \in Range(list) THEN list
                   ELSE Append(list, Head(new)),
                   Tail(new))

\* list.remove(x): the first x is taken out
RemoveAt(list, k) == SubSeq(list, 1, k - 1) \o SubSeq(list, k + 1, Len(list))

list_remove(list, x) ==
    RemoveAt(list, Minimum({k \in 1..Len(list) : list[k] = x}))

\* (a variant that removes the first of the callbacks given and no other)
RemoveEach_first_only(list, old) ==
    IF old # <<>> /\ Head(old) \in Range(list) THEN list_remove(list, Head(old))
    ELSE list

\* lines 46-48: the callbacks that are in the list are removed in turn
RECURSIVE RemoveEach(_, _)
RemoveEach(list, old) ==
    IF old = <<>> THEN list
    ELSE RemoveEach(IF Head(old) \in Range(list) THEN list_remove(list, Head(old))
                    ELSE list,
                    Tail(old))

\* register(event_name, *new) after the support check
registered(cbs, event_name, new) ==
    [WithList(cbs, event_name) EXCEPT
        ![event_name] = AppendNew(WithList(cbs, event_name)[event_name], new)]

\* unregister(event_name, *old) after the support check
unregistered(cbs, event_name, old) ==
    IF event_name \notin DOMAIN cbs THEN cbs
    ELSE [cbs EXCEPT ![event_name] = RemoveEach(cbs[event_name], old)]

NotNotifying == [event |-> "", phase |-> "idle", i |-> 0,
                 registered |-> <<>>, invoked |-> <<>>]

CallbackArgs == SeqsUpTo(CallbackIds, MaxCallbackArgs)

NoNotifierCall == [op |-> "none", event |-> "", args |-> <<>>, before |-> <<>>]

NotifierCall(op, event_name, args) ==
    [op |-> op, event |-> event_name, args |-> args, before |-> callbacks]

\* notifier.register(event_name, *new) called from outside
Register(event_name, new) ==
    /\ notifying.phase # "running"
    /\ notifier_raised' = check_support(event_name)
    /\ callbacks' = IF check_support(event_name) = ""
                    THEN registered(callbacks, event_name, new) ELSE callbacks
    /\ notifying' = NotNotifying
    /\ notifier_call' = NotifierCall("register", event_name, new)
    /\ UNCHANGED <<parser_vars, gui_vars, edit_vars>>

\* notifier.unregister(event_name, *old) called from outside
Unregister(event_name, old) ==
    /\ notifying.phase # "running"
    /\ notifier_raised' = check_support(event_name)
    /\ callbacks' = IF check_support(event_name) = ""
                    THEN unregistered(callbacks, event_name, old) ELSE callbacks
    /\ notifying' = NotNotifying
    /\ notifier_call' = NotifierCall("unregister", event_name, old)
    /\ UNCHANGED <<parser_vars, gui_vars, edit_vars>>

\* lines 54-59: _notify(event_name) is called; it raises, returns at once, or
\* its for loop is before the first callback of the event's list
Notify(event_name) ==
    /\ notifying.phase # "running"
    /\ notifier_raised' = check_support(event_name)
    /\ notifying' =
           [event |-> event_name,
            phase |-> IF check_support(event_name) # "" THEN "raised"
                      ELSE IF event_name \notin DOMAIN callbacks THEN "returned"
                      ELSE "running",
            i |-> 0,
            registered |-> IF event_name \in DOMAIN callbacks
                           THEN callbacks[event_name] ELSE <<>>,
            invoked |-> <<>>]
    /\ notifier_call' = NotifierCall("_notify", event_name, <<>>)
    /\ UNCHANGED callbacks
    /\ UNCHANGED <<parser_vars, gui_vars, edit_vars>>

\* what a callback does while it runs: nothing, or a call of register or of
\* unregister for the event being notified
CallbackEffects(event_name) ==
    {callbacks}
    \cup {registered(callbacks, event_name, <<c>>) : c \in CallbackIds}
    \cup {unregistered(callbacks, event_name, <<c>>) : c \in CallbackIds}

\* lines 59-60: the list iterator yields the item at its index in the list as
\* the list is now, and the callback is called
InvokeCallback ==
    /\ notifying.phase = "running"
    /\ notifying.i < Len(callbacks[notifying.event])
    /\ notifying' = [notifying EXCEPT
           !.i = @ + 1,
           !.invoked = Append(@, callbacks[notifying.event][notifying.i + 1])]
    /\ callbacks' \in CallbackEffects(notifying.event)
    /\ UNCHANGED <<notifier_raised, notifier_call>>
    /\ UNCHANGED <<parser_vars, gui_vars, edit_vars>>

\* line 59: the iterator's index is at the end of the list, _notify returns
NotifyDone ==
    /\ notifying.phase = "running"
    /\ notifying.i >= Len(callbacks[notifying.event])
    /\ notifying' = [notifying EXCEPT !.phase = "returned"]
    /\ UNCHANGED <<callbacks, notifier_raised, notifier_call>>
    /\ UNCHANGED <<parser_vars, gui_vars, edit_vars>>

\* lines 59-60 for a callback that calls neither register nor unregister
InvokeQuietCallback ==
    /\ InvokeCallback
    /\ callbacks' = callbacks

NotifierNext ==
    \/ \E e \in EventNames, new \in CallbackArgs : Register(e, new)
    \/ \E e \in EventNames, old \in CallbackArgs : Unregister(e, old)
    \/ \E e \in EventNames : Notify(e)
    \/ InvokeCallback
    \/ NotifyDone

NotifierOff ==
    /\ callbacks = <<>>
    /\ notifying = NotNotifying
    /\ notifier_raised = ""
    /\ notifier_call = NoNotifierCall

-----------------------------------------------------------------------------
(* Declaration texts *)

\* '\n'.join(lines)
RECURSIVE JoinLines(_)
JoinLines(lines) ==
    IF lines = <<>> THEN <<>>
    ELSE IF Len(lines) = 1 THEN lines[1]
    ELSE lines[1] \o <<"\n">> \o JoinLines(Tail(lines))

\* indentations of depth 0, 2, 4 (one tab), 4 (spaces) and 6 (a tab, two spaces)
Indentations ==
    {<<>>, <<" "," ">>, <<"\t">>, <<" "," "," "," ">>, <<"\t"," "," ">>}

LineNames == <<"a", "b", "c", "d", "e", "f", "g", "h">>

\* line i of an indentation text: "<indent><name>: t", with " -p z" when flagged
IndentLine(indent, i, flagged) ==
    indent \o <<LineNames[i]>> \o <<":"," ","t">>
           \o (IF flagged THEN <<" ","-","p"," ","z">> ELSE <<>>)

\* texts of 1..m declarations at any indentations, at most one of them with an
\* explicit parent flag
IndentTextsUpTo(m) ==
    UNION {
        {JoinLines([i \in 1..n |-> IndentLine(ind[i], i, i = flagged)]) :
            ind \in [1..n -> Indentations], flagged \in 0..n}
        : n \in 1..m}

\* those of 1..MaxLines declarations
IndentTexts == IndentTextsUpTo(MaxLines)

\* the depths [0,2,2,4,0] of the indentation example
DepthExample ==
    JoinLines(<<IndentLine(<<>>, 1, FALSE),
                IndentLine(<<" "," ">>, 2, FALSE),
                IndentLine(<<" "," ">>, 3, FALSE),
                IndentLine(<<" "," "," "," ">>, 4, FALSE),
                IndentLine(<<>>, 5, FALSE)>>)

\* flags other than the parent flag: plain, with a '#' in double quotes, with a
\* '#' in single quotes
OtherFlags ==
    {<<"-","l"," ","x">>,
     <<"-","l"," ","\"","a"," ","#"," ","b","\"">>,
     <<"-","l"," ","'","a"," ","#"," ","b","'">>}

ParentNames == {<<"r">>, <<"q","2">>}

\* the four spellings of an explicit parent flag for the name n
ParentFlagForms(n) ==
    {<<"-","p"," ">> \o n,
     <<"-","p","a","r","e","n","t"," ">> \o n,
     <<"-","p"," ","\"">> \o n \o <<"\"">>,
     <<"-","p","a","r","e","n","t"," ","\"">> \o n \o <<"\"">>}

ParentFlags == UNION {ParentFlagForms(n) : n \in ParentNames}

\* flag lists: up to MaxFlags other flags, and at most one parent flag put at
\* any place among them
FlagLists ==
    LET others == SeqsUpTo(OtherFlags, MaxFlags)
    IN  others \cup
        {Mid(fl, 1, k) \o <<pf>> \o Mid(fl, k + 1, Len(fl)) :
            fl \in others, pf \in ParentFlags, k \in 0..MaxFlags}

RECURSIVE FlagText(_)
FlagText(fl) ==
    IF fl = <<>> THEN <<>> ELSE <<" ">> \o Head(fl) \o FlagText(Tail(fl))

\* the second line of a flag text: "<indent>b<sep>t<flags><comment>"
FlagLines ==
    {indent \o <<"b">> \o sep \o <<"t">> \o FlagText(fl) \o comment :
        indent \in {<<>>, <<" "," ">>},
        sep \in {<<":"," ">>, <<" ">>},
        fl \in FlagLists,
        comment \in {<<>>, <<" ","#"," ","c">>}}

\* the end-to-end scenario: root / btn1 (indented) / btn2 (-p root)
Scenario ==
    JoinLines(<<
        <<"r","o","o","t",":"," ","r","o","w","L","a","y","o","u","t"," ",
          "-","n","u","m","b","e","r","O","f","C","o","l","u","m","n","s"," ","2">>,
        <<" "," ","b","t","n","1",":"," ","b","u","t","t","o","n"," ",
          "-","l","a","b","e","l"," ","\"","O","K","\"">>,
        <<" "," ","b","t","n","2",":"," ","b","u","t","t","o","n"," ",
          "-","l","a","b","e","l"," ","\"","C","a","n","c","e","l","\""," ",
          "-","p"," ","r","o","o","t">> >>)

\* the line of the comment-stripping example
QuotedHashExample ==
    <<"n","a","m","e",":"," ","t","y","p","e"," ",
      "-","l","a","b","e","l"," ","\"","a"," ","#"," ","b","\"">>

\* a declaration with an empty command, and one made of a comment only
EmptyCommandText == JoinLines(<< <<"r",":"," ","w">>, <<" "," ","b",":">> >>)

\* lines that are blank once their comment is stripped: empty, of whitespace
\* only, a comment only, whitespace and a comment
BlankLines ==
    {<<>>, <<" ","\t">>, <<"#","c">>, <<" "," ","#"," ","c">>}

\* the depth example with such lines before, between and after its lines
BlankExample ==
    JoinLines(<<<<"#","c">>,
                IndentLine(<<>>, 1, FALSE),
                IndentLine(<<" "," ">>, 2, FALSE),
                <<>>,
                <<" "," "," "," "," "," ">>,
                IndentLine(<<" "," ">>, 3, FALSE),
                <<" "," ","#"," ","c">>,
                IndentLine(<<" "," "," "," ">>, 4, FALSE),
                <<"\t">>,
                IndentLine(<<>>, 5, FALSE),
                <<>>,
                <<" ">> >>)

\* a declaration whose explicit parent is declared on the line after it
ForwardParentExample ==
    JoinLines(<< <<"a",":"," ","t"," ","-","p"," ","b">>, <<"b",":"," ","w">> >>)

\* texts of a root line "r: w" and one line with flags, and the examples
FlagTexts ==
    {JoinLines(<< <<"r",":"," ","w">>, line >>) : line \in FlagLines}
    \cup {Scenario, QuotedHashExample, EmptyCommandText, ForwardParentExample}

-----------------------------------------------------------------------------
(* Specifications of the parser *)

ParserStart(texts) ==
    /\ s \in texts
    /\ pc = "start"
    /\ declaration_triples = <<>>
    /\ line_no = 1
    /\ control_stack = <<>>
    /\ controls = <<>>
    /\ error = ""
    /\ GuiOff
    /\ EditOff
    /\ NotifierOff

\* Gui.from_string on the indentation texts
InitIndent == ParserStart(IndentTexts \cup {DepthExample})

NextIndent == ParserNext

SpecIndent == InitIndent /\ [][NextIndent]_vars

\* Gui.from_string on the shorter indentation texts and on a text with blank
\* lines
InitBlank == ParserStart(IndentTextsUpTo(MaxLines - 1) \cup {BlankExample})

NextBlank == ParserNext

SpecBlank == InitBlank /\ [][NextBlank]_vars

\* Gui.from_string on the texts with flags, comments and missing colons
InitFlags == ParserStart(FlagTexts)

NextFlags == ParserNext

SpecFlags == InitFlags /\ [][NextFlags]_vars

\* Guis built from up to MaxInitControls of the Controls of Universe, then any
\* calls of add, create and extend
InitGui ==
    /\ ParserOff
    /\ objects = Universe
    /\ guis \in [GuiIds ->
                   {Gui_init(cs, Universe) :
                       cs \in SeqsUpTo(1..Len(Universe), MaxInitControls)}]
    /\ call = NoCall
    /\ call_pre = NoSnapshot
    /\ mel_log = <<>>
    /\ host_ui = {}
    /\ raised = ""
    /\ stdout = <<>>
    /\ EditOff
    /\ NotifierOff

SpecGui == InitGui /\ [][GuiNext]_vars

\* a Control and the calls of its edit method
InitEdit ==
    /\ ParserOff
    /\ GuiOff
    /\ NotifierOff
    /\ user_flags = <<>>
    /\ flags = <<>>
    /\ visit_order = <<>>
    /\ visited = 0
    /\ value = Plain("unbound")
    /\ edit_pc = "idle"
    /\ invocations = <<>>

SpecEdit == InitEdit /\ [][EditNext]_vars

\* CallbackNotifier.__init__: no event has a list
InitNotifier ==
    /\ ParserOff
    /\ GuiOff
    /\ EditOff
    /\ callbacks = <<>>
    /\ notifying = NotNotifying
    /\ notifier_raised = ""
    /\ notifier_call = NoNotifierCall

SpecNotifier == InitNotifier /\ [][NotifierNext]_vars

\* the same calls, the callbacks invoked making no call of the notifier
NextRegistry ==
    \/ \E e \in EventNames, new \in CallbackArgs : Register(e, new)
    \/ \E e \in EventNames, old \in CallbackArgs : Unregister(e, old)
    \/ \E e \in EventNames : Notify(e)
    \/ InvokeQuietCallback
    \/ NotifyDone

SpecRegistry == InitNotifier /\ [][NextRegistry]_vars

\* the whole program: a declaration text is parsed, or Guis are used, or a
\* Control is edited, or a CallbackNotifier is used
Init ==
    InitIndent \/ InitBlank \/ InitFlags \/ InitGui \/ InitEdit \/ InitNotifier

Next == ParserNext \/ GuiNext \/ EditNext \/ NotifierNext

Spec == Init /\ [][Next]_vars

-----------------------------------------------------------------------------
(* Claims about the parser *)

Maximum(S) == CHOOSE i \in S : \A j \in S : j <= i

\* the declaration's command has a token -p or -parent
CarriesParentFlag(command) ==
    \E k \in 1..Len(split(command)) :
        split(command)[k] \in {<<"-","p">>, <<"-","p","a","r","e","n","t">>}

\* the earlier declarations of a depth strictly smaller than declaration i's
ShallowerBefore(i) ==
    {j \in 1..(i-1) : declaration_triples[j][1] < declaration_triples[i][1]}

\* the name of the most recent of them, None when there is none
NearestShallower(i) ==
    IF ShallowerBefore(i) = {} THEN None
    ELSE declaration_triples[Maximum(ShallowerBefore(i))][2]

ParentNamesOf(cs) == [i \in 1..Len(cs) |-> cs[i].parent_name]

\* C1: a Control parsed from a declaration without an explicit parent flag has
\* as parent_name the name of the most recent earlier declaration of a strictly
\* smaller depth, None when there is none; the depths [0,2,2,4,0] give the
\* parents [None, line 1, line 1, line 3, None]
C1_ParentInference ==
    /\ \A i \in 1..Len(controls) :
           ~CarriesParentFlag(declaration_triples[i][3])
               => controls[i].parent_name = NearestShallower(i)
    /\ (s = DepthExample /\ pc = "done")
           => /\ [i \in 1..5 |-> declaration_triples[i][1]] = <<0, 2, 2, 4, 0>>
              /\ ParentNamesOf(controls) = <<None, <<"a">>, <<"a">>, <<"c">>, None>>

\* the depth example has been parsed to its end: the fourth line's parent is the
\* third, the fifth line has none
C1_Witness ==
    /\ s = DepthExample
    /\ pc = "done"
    /\ Len(controls) = 5
    /\ controls[4].parent_name = <<"c">>
    /\ controls[5].parent_name = None

\* the line up to its first '#' outside a quoted span, a quote being closed by
\* the character that opened it
RECURSIVE QuoteAwareStrip(_, _, _)
QuoteAwareStrip(line, i, open) ==
    IF i > Len(line) THEN line
    ELSE IF line[i] = "#" /\ open = "" THEN Mid(line, 1, i - 1)
    ELSE IF open = "" /\ line[i] \in {"\"", "'"}
         THEN QuoteAwareStrip(line, i + 1, line[i])
    ELSE IF line[i] = open THEN QuoteAwareStrip(line, i + 1, "")
    ELSE QuoteAwareStrip(line, i + 1, open)

QuoteAwareLines(ls) == [i \in 1..Len(ls) |-> QuoteAwareStrip(ls[i], 1, "")]

\* C2: a '#' inside a single- or double-quoted span does not truncate the line:
\* the declarations parsed are those of the lines cut at their first '#' outside
\* any quoted span, and name: type -label "a # b" keeps -label "a # b" as flags
C2_QuotedHashIsLiteral ==
    pc \in {"loop", "done"} =>
        /\ declaration_triples =
               parse_line(SelectSeq(QuoteAwareLines(splitlines(s)), IsMeaningful))
        /\ (s = QuotedHashExample /\ pc = "done") =>
               controls[1].creation_flags =
                   <<"-","l","a","b","e","l"," ","\"","a"," ","#"," ","b","\"">>

\* C6: a meaningful line without a colon is an error of the parse: no Control
\* is made from it and the parse does not return
C6_MissingColonIsError ==
    \A i \in 1..Len(meaningful_lines(s)) :
        find(meaningful_lines(s)[i], ":") = -1
            => /\ Len(controls) < i
               /\ pc # "done"

\* the command has the text " <form>" followed by a space or by its end
HasFlagText(command, form) ==
    \E i \in 1..Len(command) :
        /\ Mid(command, i, i + Len(form)) = <<" ">> \o form
        /\ CharAt(command, i + Len(form) + 1) \in {"", " "}

ScenarioControls ==
    <<Control(<<"r","o","o","t">>, <<"r","o","w","L","a","y","o","u","t">>,
              <<"-","n","u","m","b","e","r","O","f","C","o","l","u","m","n","s",
                " ","2">>, None),
      Control(<<"b","t","n","1">>, <<"b","u","t","t","o","n">>,
              <<"-","l","a","b","e","l"," ","\"","O","K","\"">>,
              <<"r","o","o","t">>),
      Control(<<"b","t","n","2">>, <<"b","u","t","t","o","n">>,
              <<"-","l","a","b","e","l"," ","\"","C","a","n","c","e","l","\"">>,
              <<"r","o","o","t">>)>>

InsertLine(text, k, line) ==
    JoinLines(Mid(splitlines(text), 1, k) \o <<line>>
                  \o Mid(splitlines(text), k + 1, Len(splitlines(text))))

\* C18: a line that is blank once its comment is stripped, put anywhere into
\* the text, changes nothing of the declarations the for loop is run on, which
\* are all that the Controls are made from; the depth example with such lines
\* among its lines parses to the Controls of the depth example
C18_BlankLinesElided ==
    /\ (pc = "loop" /\ line_no = 1) =>
           \A k \in 0..Len(splitlines(s)) :
               \A line \in BlankLines :
                   parse_line(meaningful_lines(InsertLine(s, k, line)))
                       = declaration_triples
    /\ (s = BlankExample /\ pc = "done") =>
           /\ [i \in 1..Len(controls) |-> controls[i].name]
                  = << <<"a">>, <<"b">>, <<"c">>, <<"d">>, <<"e">> >>
           /\ ParentNamesOf(controls) = <<None, <<"a">>, <<"a">>, <<"c">>, None>>
           /\ \A i \in 1..Len(controls) :
                  /\ controls[i].control_type = <<"t">>
                  /\ controls[i].creation_flags = <<>>

\* the depth example with blank lines among its lines has been parsed
C18_Witness ==
    /\ s = BlankExample
    /\ pc = "done"
    /\ Len(controls) = 5
    /\ Len(splitlines(s)) = 12

\* C19: once the stack exists, its bottom entry is the sentinel (-1, None), its
\* depths increase strictly from the bottom to the top, and the assertion of
\* push has not failed
C19_StackInvariant ==
    pc # "start" =>
        /\ Len(control_stack) >= 1
        /\ control_stack[1] = <<-1, None>>
        /\ \A i \in 1..(Len(control_stack) - 1) :
               control_stack[i][1] < control_stack[i + 1][1]
        /\ error # "AssertionError"

\* the stack held three nested controls and was cut back to the sentinel by the
\* last line of the depth example, which was then pushed
C19_Witness ==
    /\ s = DepthExample
    /\ pc = "done"
    /\ control_stack = << <<-1, None>>, <<0, <<"e">>>> >>

\* the stack after n declarations when only depths and names are looked at,
\* which is what the text without any parent flag gives
RECURSIVE StackByIndentation(_, _)
StackByIndentation(triples, n) ==
    IF n = 0 THEN ControlStackInit
    ELSE ControlStack_push(
             ControlStack_pop(StackByIndentation(triples, n - 1), triples[n][1]),
             triples[n][1], triples[n][2])

\* the parent of declaration i in the text without any parent flag
ParentByIndentation(triples, i) ==
    top_control(ControlStack_pop(StackByIndentation(triples, i - 1), triples[i][1]))

\* C21: an explicit parent flag on a line changes the parent of that line's
\* Control and nothing else: the stack is at every step the one the text without
\* the flag gives, its top being the last line's depth and name, and every line
\* without a flag has the parent it has in the text without the flag
C21_OverrideIsLocal ==
    pc \in {"loop", "done"} =>
        /\ control_stack = StackByIndentation(declaration_triples, line_no - 1)
        /\ line_no > 1 =>
               control_stack[Len(control_stack)]
                   = <<declaration_triples[line_no - 1][1],
                       declaration_triples[line_no - 1][2]>>
        /\ \A i \in 1..Len(controls) :
               IF CarriesParentFlag(declaration_triples[i][3])
               THEN controls[i].parent_name = <<"z">>
               ELSE controls[i].parent_name
                        = ParentByIndentation(declaration_triples, i)

\* the second line has an explicit parent and the third, indented under it,
\* has the second as its parent
C21_Witness ==
    /\ pc = "done"
    /\ Len(controls) >= 3
    /\ CarriesParentFlag(declaration_triples[2][3])
    /\ controls[2].parent_name = <<"z">>
    /\ ParentByIndentation(declaration_triples, 2) = <<"a">>
    /\ declaration_triples[3][1] > declaration_triples[2][1]
    /\ controls[3].parent_name = <<"b">>

\* declaration i's parent is the name of an earlier declaration of a strictly
\* smaller depth
ParentDeclaredEarlier(i) ==
    \E j \in 1..(i - 1) :
        /\ controls[j].name = controls[i].parent_name
        /\ declaration_triples[j][1] < declaration_triples[i][1]

\* C11: in the Gui parsed from a text (the host holding no control of its own),
\* every Control with a parent_name has as parent a Control declared earlier at
\* a strictly smaller depth, so that Gui.create, which follows the order of the
\* sequence, creates the parent before the control
C11_ParentDeclaredEarlier ==
    pc = "done" =>
        \A i \in 1..Len(controls) :
            controls[i].parent_name # None => ParentDeclaredEarlier(i)

-----------------------------------------------------------------------------
(* Claims about the Gui *)

Occurrences(seq, x) == Cardinality({i \in 1..Len(seq) : seq[i] = x})

\* the Controls for which the call invoked mel.eval, in order
Created == [j \in 1..Len(mel_log) |-> mel_log[j].control]

\* C5: between calls, every Control of a Gui's sequence is the object the index
\* returns for its name, and every entry of the index is in the sequence
C5_IndexMatchesSequence ==
    ~InCall =>
        \A g \in GuiIds :
            /\ \A k \in 1..Len(guis[g].controls) :
                   /\ objects[guis[g].controls[k]].name \in DOMAIN guis[g].control_lookup
                   /\ guis[g].control_lookup[objects[guis[g].controls[k]].name]
                          = guis[g].controls[k]
            /\ \A n \in DOMAIN guis[g].control_lookup :
                   guis[g].control_lookup[n] \in Range(guis[g].controls)

\* C8: when Gui.create has returned, it has invoked Control.create in the order
\* of the Gui's sequence and exactly once for each Control of the Gui
C8_CreateOncePerControl ==
    (call.op = "create" /\ call.phase = "returned") =>
        /\ Created = guis[call.self].controls
        /\ \A c \in Range(guis[call.self].controls) : Occurrences(Created, c) = 1

\* C9: when self.extend(other) has returned, every Control of other is in self's
\* sequence and is what self's index returns for its name, the host was asked
\* to create other's controls, once each and in other's order, and none of the
\* Controls self had before the call
C9_ExtendCreatesOnlyAbsorbed ==
    (call.op = "extend" /\ call.phase = "returned") =>
        /\ \A c \in Range(call_pre.other) :
               /\ c \in Range(guis[call.self].controls)
               /\ guis[call.self].control_lookup[objects[c].name] = c
        /\ Created = call_pre.other
        /\ \A c \in Range(call_pre.other) : Occurrences(Created, c) = 1
        /\ \A c \in Range(call_pre.self) : Occurrences(Created, c) = 0

\* C10: a create the host rejects is the last of its call: the call is left by
\* the RuntimeError, the controls created before it are still in the host, and
\* the creates attempted are those of the first controls of the sequence, once each
C10_CreateNotTransactional ==
    /\ \A j \in 1..Len(mel_log) :
           IF mel_log[j].accepted
           THEN mel_log[j].control \in host_ui
           ELSE /\ j = Len(mel_log)
                /\ call.phase = "raised"
                /\ raised = "RuntimeError"
    /\ call.op \in {"create", "extend"} =>
           /\ Len(mel_log) <= Len(guis[Creating].controls)
           /\ Created = SubSeq(guis[Creating].controls, 1, Len(mel_log))

\* Gui.create was left by the rejection of the second of three controls
C10_Witness ==
    /\ call.op = "create"
    /\ call.phase = "raised"
    /\ raised = "RuntimeError"
    /\ Len(guis[call.self].controls) = 3
    /\ Len(mel_log) = 2
    /\ mel_log[1].accepted
    /\ ~mel_log[2].accepted

-----------------------------------------------------------------------------
(* Claims about Control.edit and CallbackNotifier *)

\* C3: every command flag with a callable value is handed to the host as a
\* wrapper, and each invocation of a wrapper by the host is a call, without
\* arguments, of the callback the caller passed for that same flag
C3_WrapperCallsOwnCallback ==
    /\ edit_pc = "called" =>
           \A f \in DOMAIN user_flags :
               IsCommandFlag(f, user_flags[f]) => flags[f].kind = "lambda"
    /\ \A j \in 1..Len(invocations) :
           /\ invocations[j].error = ""
           /\ invocations[j].called = user_flags[invocations[j].flag].id

\* C4: when _notify has returned, it has invoked the callbacks that were
\* registered for the event when it was called, each once, in their order
C4_NotifyInvokesRegistered ==
    notifying.phase = "returned" => notifying.invoked = notifying.registered

\* C12: a call of register, unregister or _notify with an event name that is
\* not supported is left by the TypeError of __check_support, with every
\* callback list as it was before the call and no callback invoked
C12_UnsupportedEventFails ==
    (notifier_call.op # "none" /\ notifier_call.event \notin SupportedEvents) =>
        /\ notifier_raised = "TypeError"
        /\ callbacks = notifier_call.before
        /\ notifying.invoked = <<>>
        /\ notifying.phase \in {"idle", "raised"}

\* _notify of an unsupported event was called while a supported event had
\* callbacks registered
C12_Witness ==
    /\ notifier_call.op = "_notify"
    /\ notifier_call.event = "other"
    /\ notifier_raised = "TypeError"
    /\ "changed" \in DOMAIN callbacks
    /\ callbacks["changed"] = <<"c1", "c2">>

NoDuplicates(list) == \A c \in Range(list) : Occurrences(list, c) = 1

FirstIndex(list, x) == Minimum({k \in 1..Len(list) : list[k] = x})

\* the event's list in a value of __callbacks, empty when the event has none
ListOf(cbs, event_name) ==
    IF event_name \in DOMAIN cbs THEN cbs[event_name] ELSE <<>>

\* after register(event, *args): the list is the list before the call followed
\* by the callbacks of args that were not in it, each once, in the order of
\* their first places in args
RegisteredInOrder(old, args, list) ==
    /\ Len(list) >= Len(old)
    /\ SubSeq(list, 1, Len(old)) = old
    /\ Range(list) = Range(old) \cup Range(args)
    /\ \A x \in Range(args) \ Range(old) :
         \A y \in Range(args) \ Range(old) :
             FirstIndex(args, x) < FirstIndex(args, y)
                 => FirstIndex(list, x) < FirstIndex(list, y)

\* C13: no list of __callbacks holds a callback twice; register keeps the list
\* it finds and appends the callbacks not yet in it in the order given; a
\* _notify whose callbacks leave the notifier alone has invoked each callback of
\* the event's list exactly once, in the list's order
C13_RegisterIdempotent ==
    /\ \A e \in DOMAIN callbacks : NoDuplicates(callbacks[e])
    /\ (notifier_call.op = "register" /\ notifier_call.event \in SupportedEvents)
           => RegisteredInOrder(ListOf(notifier_call.before, notifier_call.event),
                                notifier_call.args,
                                ListOf(callbacks, notifier_call.event))
    /\ notifying.phase = "returned" =>
           /\ notifying.invoked = notifying.registered
           /\ \A c \in Range(notifying.registered) :
                  Occurrences(notifying.invoked, c) = 1

\* register was called with the same callback twice for an event on which that
\* callback was registered already
C13_Witness ==
    /\ notifier_call.op = "register"
    /\ notifier_call.event = "changed"
    /\ notifier_call.args = <<"c1", "c1">>
    /\ ListOf(notifier_call.before, "changed") = <<"c2", "c1">>
    /\ ListOf(callbacks, "changed") = <<"c2", "c1">>

\* the list without the callbacks given, the others in the order they had
Without(list, given) == SelectSeq(list, LAMBDA c : c \notin Range(given))

\* C17: after unregister(event, *args) on a supported event, the event's list
\* is its list before the call without the callbacks of args, the others in
\* their order; when none of args was registered for the event (or the event
\* had no list) __callbacks is what it was; and the lists of the other events
\* are what they were
C17_UnregisterFrame ==
    (notifier_call.op = "unregister" /\ notifier_call.event \in SupportedEvents) =>
        /\ notifier_raised = ""
        /\ DOMAIN callbacks = DOMAIN notifier_call.before
        /\ ListOf(callbacks, notifier_call.event)
               = Without(ListOf(notifier_call.before, notifier_call.event),
                         notifier_call.args)
        /\ Range(notifier_call.args)
               \cap Range(ListOf(notifier_call.before, notifier_call.event)) = {}
                   => callbacks = notifier_call.before
        /\ \A e \in DOMAIN callbacks :
               e # notifier_call.event => callbacks[e] = notifier_call.before[e]

\* the second of three callbacks of one event was unregistered while another
\* event had it registered too
C17_Witness ==
    /\ notifier_call.op = "unregister"
    /\ notifier_call.event = "changed"
    /\ notifier_call.args = <<"c2">>
    /\ ListOf(notifier_call.before, "changed") = <<"c1", "c2", "c3">>
    /\ ListOf(callbacks, "changed") = <<"c1", "c3">>
    /\ ListOf(callbacks, "closed") = <<"c2">>

-----------------------------------------------------------------------------
(* Further claims about the Gui *)

\* the Gui's index had the control's name when the add call began
NameWasIndexed ==
    \E k \in 1..Len(call_pre.self) :
        objects[call_pre.self[k]].name = objects[call.control].name

\* C14: an add of a Control whose name the Gui's index already has is left by
\* an error, the Gui being as it was
C14_AddRejectsNameCollision ==
    (call.op = "add" /\ NameWasIndexed) =>
        /\ raised # ""
        /\ guis[call.self].controls = call_pre.self

\* the command of a Control, as the claim words it
CommandOf(control) ==
    control.control_type
        \o (IF control.parent_name = None THEN <<>>
            ELSE <<" ","-","p"," ">> \o control.parent_name)
        \o <<" ">> \o control.creation_flags \o <<" ">> \o control.name \o <<";">>

\* C15: each Control.create invokes the host once, with the command made of
\* control_type, " -p <parent_name>" when there is a parent, creation_flags and
\* name; when the host rejects it, that command is what was printed, the
\* RuntimeError leaves the call, and no further invocation follows
C15_CreateReportsAndReraises ==
    /\ \A j \in 1..Len(mel_log) :
           /\ mel_log[j].command = CommandOf(objects[mel_log[j].control])
           /\ ~mel_log[j].accepted =>
                  /\ j = Len(mel_log)
                  /\ stdout = <<printed_command(mel_log[j].command)>>
                  /\ raised = "RuntimeError"
                  /\ call.phase = "raised"
    /\ (\A j \in 1..Len(mel_log) : mel_log[j].accepted) =>
           /\ stdout = <<>>
           /\ raised = ""
    /\ call.phase \in {"creating", "raised", "returned"}
           /\ call.op \in {"create", "extend"} =>
               Len(mel_log) = call.i + (IF call.phase = "raised" THEN 1 ELSE 0)

\* the host rejected the create of the Control b, whose parent is a
C15_Witness ==
    /\ call.phase = "raised"
    /\ raised = "RuntimeError"
    /\ Len(mel_log) = 2
    /\ mel_log[2].control = 2
    /\ mel_log[2].command = <<"t"," ","-","p"," ","a"," ","-","l"," ","x"," ","b",";">>
    /\ stdout = << <<"/","/"," ","t"," ","-","p"," ","a"," ","-","l"," ","x",
                     " ","b",";"," ","/","/">> >>

\* C16: right after gui.add(control), gui[control.name] is the Control that
\* was added, whatever the Gui held before
C16_AddThenLookup ==
    call.op = "add" =>
        Gui_getitem(guis[call.self], objects[call.control].name)
            = [raised |-> "", control |-> call.control]

\* the Control added has the name of another Control the Gui held already
C16_Witness ==
    /\ call.op = "add"
    /\ call.control = 3
    /\ 1 \in Range(call_pre.self)
    /\ Gui_getitem(guis[call.self], <<"a">>).control = 3

\* C20: during self.extend(other) the receiver never holds more controls than
\* it had when the call began plus those other had then, and it holds exactly
\* that many when the call has returned
C20_ExtendAppendsOthersControls ==
    call.op = "extend" =>
        /\ Len(guis[call.self].controls)
               <= Len(call_pre.self) + Len(call_pre.other)
        /\ call.phase = "returned" =>
               Len(guis[call.self].controls)
                   = Len(call_pre.self) + Len(call_pre.other)

=============================================================================
